---- MODULE Spec2Model ----
(***************************************************************************)
(* go-identity-server: the token service (token-service.go) and the VM     *)
(* provisioning service (vm-service.go), as started by main (main.go).     *)
(*                                                                         *)
(* Strings of the program are TLA+ strings; a UUID is the pair             *)
(* <<"uuid", n>> (uuid.New never returns the same value twice) and Go's    *)
(* empty string in an ID field is the empty tuple.  Time is Unix seconds.  *)
(***************************************************************************)
EXTENDS Integers, Sequences, FiniteSets, TLC

\* ------------------------------------------------------------------ bounds
\* GenerateToken calls in a behaviour.
MaxTokens == 2
\* Length of the rejected-token list.
MaxRejected == 2
\* Clock advances in a behaviour.
MaxTicks == 3
\* CreateVM requests in a behaviour.
MaxCalls == 2
\* RejectToken calls running at the same time.
MaxRacers == 2

\* CreateUser calls in a behaviour.
MaxCreated == 1
\* Successful logins in a behaviour of the server.
MaxLogins == 1
\* Validity windows the clock passes in a behaviour of the server.
MaxWindows == 1

\* --------------------------------------------------------------- constants
\* time.Minute * 10, in the seconds of claims["exp"].
ValidityWindow == 600

\* tokenString[7:]
PrefixLen == 7

\* NewTokenService("secret")
Secret == "secret"

\* Go's "" in a field that otherwise holds a UUID.
EmptyString == <<>>

NewUUID(n) == <<"uuid", n>>

\* Users handed to GenerateToken: an embedded user of NewUserService (no
\* role) and a user created through CreateUser with a role.
Users ==
    { [ID |-> "embedded1", Name |-> "John", Role |-> ""],
      [ID |-> "u1", Name |-> "alice", Role |-> "admin"] }

\* The clock is read every half validity window: a token issued at t is seen
\* before (t, t + 300), at (t + 600) and past (t + 900) its expiry.
TickSteps == {ValidityWindow \div 2}

VARIABLES
    \* token service
    now,             \* time.Now().Unix()
    ticks,           \* clock advances so far
    uuids,           \* UUIDs minted so far
    rejectedTokens,  \* tokenService.rejectedTokens
    issued,          \* token strings GenerateToken has returned
    rejectedOK,      \* token strings on which RejectToken returned nil
    lastCall,        \* the latest token service call made at the present time
    \* VM service
    tasks,           \* vmService.tasks
    deployments,     \* vmService.deployments (sync.Map)
    vms,             \* vmService.vms (sync.Map)
    callPc,          \* each CreateVM request's position
    callBody,        \* each request's CreateVMBody
    callTask,        \* each request's task (local variable, then return value)
    simPc,           \* each simulateVMCreation goroutine's position
    simDep,          \* each goroutine's deploymentID argument
    simVM,           \* the VM each goroutine built
    loopPc,          \* UpdateDeploymentStatus's position
    loopUpdate,      \* the update UpdateDeploymentStatus is processing
    loopValue,       \* the value it loaded for that update
    received,        \* the updates UpdateDeploymentStatus has received, in order
    listed,          \* the latest List call of the VM service and its outcome
    callOld,         \* the s.tasks a racing CreateVM read for its append
    \* racing RejectToken calls
    rejPc,           \* each racing RejectToken call's position
    rejTok,          \* its token string
    rejOld,          \* the t.rejectedTokens it read for its append
    \* user service and gateway
    users,           \* userService.users
    usersCreated,    \* CreateUser calls so far
    resp             \* the latest HTTP request made at the present time and its response

tokenVars == <<now, ticks, rejectedTokens, issued, rejectedOK, lastCall>>
vmVars == <<tasks, deployments, vms, callPc, callBody, callTask, simPc,
            simDep, simVM, loopPc, loopUpdate, loopValue, received>>
listVars == <<listed>>
raceVars == <<callOld, rejPc, rejTok, rejOld>>
gwVars == <<users, usersCreated, resp>>
vars == <<tokenVars, vmVars, uuids, listVars, raceVars, gwVars>>

\* What the token service's calls and the VM service's steps leave alone.
tokenFrame == <<vmVars, listVars, raceVars, gwVars>>
vmFrame == <<tokenVars, listVars, raceVars, gwVars>>

\* ------------------------------------------------------------ token service

\* A token string, by what jwt.Parse reads from it: whether it has the three
\* parts of a JWT, the header's alg, the key its signature was made with, the
\* claims, and which of the claims read with .(string) are absent or hold
\* something that is no string.
Token(alg, key, user, exp, jti) ==
    [form |-> "jwt", alg |-> alg, key |-> key, user_id |-> user.ID,
     role |-> user.Role, name |-> user.Name, exp |-> exp, jti |-> jti,
     missing |-> {}]

\* A string that is no JWT.
Garbage ==
    [form |-> "garbage", alg |-> "", key |-> "", user_id |-> "", role |-> "",
     name |-> "", exp |-> 0, jti |-> EmptyString, missing |-> {}]

\* The claims of t signed with another key.
Tamper(t) == [t EXCEPT !.key = "other"]

\* The claims of t under alg "none", unsigned.
AlgNone(t) == [t EXCEPT !.alg = "none", !.key = ""]

\* What a client can present: issued tokens, forgeries of them, garbage.
Presentable ==
    issued \cup {Tamper(t) : t \in issued} \cup {AlgNone(t) : t \in issued}
           \cup {Garbage}

\* Tokens signed with the service's secret outside GenerateToken, valid for
\* the present time, with one of the claims the service reads left out.
Crafted(at) ==
    { [Token("HS256", Secret, [ID |-> "u1", Name |-> "alice", Role |-> "admin"],
             at + ValidityWindow, NewUUID(0))
          EXCEPT !.missing = {c}] :
        c \in {"jti", "user_id", "name"} }

\* token.Method.(*jwt.SigningMethodHMAC)
IsHMAC(alg) == alg \in {"HS256", "HS384", "HS512"}

\* Mutant of Expired: a token still passes at the very second of its expiry.
ExpiredStrictlyPast(t, at) == at > t.exp

\* MapClaims.Valid as jwt.Parse runs it: exp against the clock.
Expired(t, at) == ~(at < t.exp)

\* Mutant of Parse: the claims are not validated, so exp is never looked at.
ParseNoExpiry(t, at) ==
    IF t.form # "jwt" THEN "token is malformed"
    ELSE IF ~IsHMAC(t.alg) THEN "unexpected signing method"
    ELSE IF t.key # Secret THEN "signature is invalid"
    ELSE "nil"

\* jwt.Parse with the service's key function: the error, "nil" for none.
Parse(t, at) ==
    IF t.form # "jwt" THEN "token is malformed"
    ELSE IF ~IsHMAC(t.alg) THEN "unexpected signing method"
    ELSE IF t.key # Secret THEN "signature is invalid"
    ELSE IF Expired(t, at) THEN "token is expired"
    ELSE "nil"

NoUser == [ID |-> "", Name |-> "", Role |-> ""]

\* for _, rejectedJTI := range t.rejectedTokens
OnRejectedList(t, rejected) ==
    \E i \in 1..Len(rejected) : rejected[i] = t.jti

\* Mutant of MintToken: the jti is derived from the user, not minted afresh.
MintTokenUserJTI(user, at, id) ==
    Token("HS256", Secret, user, at + ValidityWindow, <<"uuid", user.ID>>)

\* The claims GenerateToken signs.
MintToken(user, at, id) ==
    Token("HS256", Secret, user, at + ValidityWindow, id)

\* The User ValidateToken builds from the claims.
UserOfClaims(t) == [ID |-> t.user_id, Name |-> t.name, Role |-> ""]

\* Mutant of ValidateResult: the user named by the claims is looked up in the
\* user service and must still be there under that name.
ValidateResultStoreChecked(t, at, rejected) ==
    LET err == Parse(t, at) IN
    IF err # "nil" THEN [err |-> err, user |-> NoUser]
    ELSE IF OnRejectedList(t, rejected)
    THEN [err |-> "token is rejected", user |-> NoUser]
    ELSE IF ~\E i \in 1..Len(users) :
                 users[i].ID = t.user_id /\ users[i].Name = t.name
    THEN [err |-> "User not found", user |-> NoUser]
    ELSE [err |-> "nil", user |-> UserOfClaims(t)]

\* Mutant of ValidateResult: the rejected list is consulted before the parse
\* error is looked at.
ValidateResultListFirst(t, at, rejected) ==
    IF OnRejectedList(t, rejected)
    THEN [err |-> "token is rejected", user |-> NoUser]
    ELSE IF Parse(t, at) # "nil" THEN [err |-> Parse(t, at), user |-> NoUser]
    ELSE [err |-> "nil", user |-> UserOfClaims(t)]

\* ValidateToken's return values; err "panic" when one of its unchecked
\* .(string) assertions fails: on jti in each round of the loop over the
\* rejected list, on user_id and name when building the User.
ValidateResult(t, at, rejected) ==
    LET err == Parse(t, at) IN
    IF err # "nil" THEN [err |-> err, user |-> NoUser]
    ELSE IF "jti" \in t.missing /\ Len(rejected) > 0
         THEN [err |-> "panic", user |-> NoUser]
    ELSE IF OnRejectedList(t, rejected)
         THEN [err |-> "token is rejected", user |-> NoUser]
    ELSE IF t.missing \cap {"user_id", "name"} # {}
         THEN [err |-> "panic", user |-> NoUser]
         ELSE [err |-> "nil", user |-> UserOfClaims(t)]

\* Mutant of RejectedAfter: the list is overwritten instead of appended to.
RejectedAfterOverwrite(t, at, rejected) ==
    IF Parse(t, at) = "nil" THEN <<t.jti>> ELSE rejected

\* Mutant of RejectedAfter: the parse error is not looked at.
RejectedAfterUnchecked(t, at, rejected) == Append(rejected, t.jti)

\* RejectToken's return value; "panic" when claims["jti"].(string) fails.
RejectErr(t, at) ==
    IF Parse(t, at) # "nil" THEN Parse(t, at)
    ELSE IF "jti" \in t.missing THEN "panic"
    ELSE "nil"

\* The list RejectToken leaves.
RejectedAfter(t, at, rejected) ==
    IF RejectErr(t, at) = "nil" THEN Append(rejected, t.jti) ELSE rejected

\* A call of the token service as its caller sees it: the operation, the token
\* string involved, the error and the user returned.
Call(op, t, err, user) ==
    [op |-> op, tok |-> t, err |-> err, user |-> user]

NoCall == Call("none", Garbage, "nil", NoUser)

\* The empty string as a token string.
NoTail == [Garbage EXCEPT !.form = "empty"]

\* An Authorization header value: the characters before the token string and
\* the token string; NoTail where nothing follows.
Header(pre, tail) == [pre |-> pre, tail |-> tail]

\* Header.Get("Authorization") of a request without the header.
NoHeader == Header(<<>>, NoTail)

NoUserBody == [Name |-> "", Password |-> "", Role |-> ""]

\* A request and its response: the route, the header and body sent, the
\* status written, whether the middleware called ctx.Next(), whether the
\* request panicked into gin's Recovery, the user set in the context, and the
\* error text of the response.
Response(route, header, body, status, next, panic, user, err) ==
    [route |-> route, header |-> header, body |-> body, status |-> status,
     next |-> next, panic |-> panic, user |-> user, err |-> err]

NoResp == Response("none", NoHeader, NoUserBody, 0, FALSE, FALSE, NoUser, "")

\* Mutant of GenerateToken: the service records the jti it issues in its list.
GenerateTokenRecorded(user) ==
    /\ uuids < MaxTokens
    /\ Len(rejectedTokens) < MaxRejected
    /\ LET t == Token("HS256", Secret, user, now + ValidityWindow, NewUUID(uuids + 1)) IN
         /\ issued' = issued \cup {t}
         /\ rejectedTokens' = Append(rejectedTokens, t.jti)
         /\ lastCall' = [op |-> "GenerateToken", tok |-> t, err |-> "nil", user |-> user]
    /\ uuids' = uuids + 1
    /\ UNCHANGED <<now, ticks, rejectedOK, tokenFrame>>

GenerateToken(user) ==
    /\ uuids < MaxTokens
    /\ LET t == MintToken(user, now, NewUUID(uuids + 1)) IN
         /\ issued' = issued \cup {t}
         /\ lastCall' = Call("GenerateToken", t, "nil", user)
    /\ uuids' = uuids + 1
    /\ UNCHANGED <<now, ticks, rejectedTokens, rejectedOK, tokenFrame>>

ValidateToken(t) ==
    /\ LET r == ValidateResult(t, now, rejectedTokens) IN
         lastCall' = Call("ValidateToken", t, r.err, r.user)
    /\ UNCHANGED <<now, ticks, uuids, rejectedTokens, issued, rejectedOK, tokenFrame>>

RejectToken(t) ==
    /\ Len(rejectedTokens) < MaxRejected
    /\ rejectedTokens' = RejectedAfter(t, now, rejectedTokens)
    /\ LET err == RejectErr(t, now) IN
         /\ lastCall' = Call("RejectToken", t, err, NoUser)
         /\ rejectedOK' = IF err = "nil" THEN rejectedOK \cup {t} ELSE rejectedOK
    /\ UNCHANGED <<now, ticks, uuids, issued, tokenFrame>>

\* RejectToken as one request goroutine p runs it beside others.  The append
\* of line 83 is a read of the slice and then a write of the result, and no
\* lock holds the two together.  Up to the read: a token that does not parse
\* returns its error at once.
RejectRead(p, t) ==
    /\ rejPc[p] = "idle"
    /\ LET err == RejectErr(t, now) IN
         IF err = "nil"
         THEN /\ rejPc' = [rejPc EXCEPT ![p] = "write"]
              /\ rejTok' = [rejTok EXCEPT ![p] = t]
              /\ rejOld' = [rejOld EXCEPT ![p] = rejectedTokens]
              /\ lastCall' = lastCall
         ELSE /\ lastCall' = Call("RejectToken", t, err, NoUser)
              /\ UNCHANGED <<rejPc, rejTok, rejOld>>
    /\ UNCHANGED <<now, ticks, uuids, rejectedTokens, issued, rejectedOK,
                   vmVars, listVars, callOld, gwVars>>

\* The write of the appended slice, and return nil.
RejectWrite(p) ==
    /\ rejPc[p] = "write"
    /\ rejectedTokens' = Append(rejOld[p], rejTok[p].jti)
    /\ rejectedOK' = rejectedOK \cup {rejTok[p]}
    /\ lastCall' = Call("RejectToken", rejTok[p], "nil", NoUser)
    /\ rejPc' = [rejPc EXCEPT ![p] = "done"]
    /\ UNCHANGED <<now, ticks, uuids, issued, rejTok, rejOld,
                   vmVars, listVars, callOld, gwVars>>

GetRejectedTokens ==
    /\ lastCall' = Call("GetRejectedTokens", Garbage, "nil", NoUser)
    /\ UNCHANGED <<now, ticks, uuids, rejectedTokens, issued, rejectedOK, tokenFrame>>

\* The wall clock moves on; the latest call and the latest request are then
\* no longer ones made now.
Tick(d) ==
    /\ ticks < MaxTicks
    /\ now' = now + d
    /\ ticks' = ticks + 1
    /\ lastCall' = NoCall
    /\ resp' = NoResp
    /\ UNCHANGED <<uuids, rejectedTokens, issued, rejectedOK, vmVars, listVars,
                   raceVars, users, usersCreated>>

TokenInit ==
    /\ now = 0
    /\ ticks = 0
    /\ rejectedTokens = <<>>
    /\ issued = {}
    /\ rejectedOK = {}
    /\ lastCall = NoCall

\* --------------------------------------------------------------- VM service

Calls == 1..MaxCalls

\* Request bodies the gateway binds: the spec's example and an empty one.
Bodies ==
    { [Name |-> "web1", NumCPUs |-> 2, MemoryMB |-> 2048],
      [Name |-> "", NumCPUs |-> 0, MemoryMB |-> 0] }

NoBody == [Name |-> "", NumCPUs |-> 0, MemoryMB |-> 0]
NoTask == [TaskID |-> EmptyString, DeploymentID |-> EmptyString]
NoVM == [ID |-> EmptyString, Name |-> "", NumCPUs |-> 0, MemoryMB |-> 0]
NoUpdate == [DeploymentID |-> EmptyString, ResourceID |-> EmptyString]
NoDeployment == [ID |-> EmptyString, ResourceID |-> EmptyString, Status |-> ""]

\* Mutant of Store: the map is replaced by one holding the new entry alone.
StoreAlone(m, k, v) == [x \in {k} |-> v]

\* sync.Map.Store
Store(m, k, v) ==
    [x \in DOMAIN m \cup {k} |-> IF x = k THEN v ELSE m[x]]

\* The deployment createDeployment builds: ResourceID keeps its zero value.
NewDeployment(id) ==
    [ID |-> id, ResourceID |-> EmptyString, Status |-> "in-progress"]

\* The VM simulateVMCreation builds.
NewVM(id, body) ==
    [ID |-> id, Name |-> body.Name, NumCPUs |-> body.NumCPUs,
     MemoryMB |-> body.MemoryMB]

\* Mutant of UpdateOf: the two IDs change places.
UpdateOfSwapped(deploymentID, vm) ==
    [DeploymentID |-> vm.ID, ResourceID |-> deploymentID]

\* The message simulateVMCreation sends.
UpdateOf(deploymentID, vm) ==
    [DeploymentID |-> deploymentID, ResourceID |-> vm.ID]

\* Mutant of Reconciled: the status is left as loaded.
ReconciledStatusKept(deployment, update) == deployment

\* The value UpdateDeploymentStatus stores back for an update.
Reconciled(deployment, update) ==
    [deployment EXCEPT !.Status = "created"]

\* Mutant of CreateVMBegin: the goroutine is started for a deployment that
\* was never stored.
CreateVMBeginUnstored(r, body) ==
    /\ callPc[r] = "idle"
    /\ \A q \in Calls : q < r => callPc[q] # "idle"
    /\ simPc' = [simPc EXCEPT ![r] = "fabricate"]
    /\ simDep' = [simDep EXCEPT ![r] = NewUUID(uuids + 2)]
    /\ callTask' = [callTask EXCEPT ![r] =
                      [TaskID |-> NewUUID(uuids + 1),
                       DeploymentID |-> NewUUID(uuids + 2)]]
    /\ callBody' = [callBody EXCEPT ![r] = body]
    /\ callPc' = [callPc EXCEPT ![r] = "append"]
    /\ uuids' = uuids + 2
    /\ UNCHANGED <<tasks, deployments, vms, simVM, loopPc, loopUpdate,
                   loopValue, received, vmFrame>>

\* CreateVM up to the return of createDeployment: the task ID, the deployment
\* stored, the goroutine started, the task's DeploymentID set.  Requests are
\* numbered in the order they get here.
CreateVMBegin(r, body) ==
    /\ callPc[r] = "idle"
    /\ \A q \in Calls : q < r => callPc[q] # "idle"
    /\ LET taskID == NewUUID(uuids + 1)
           depID == NewUUID(uuids + 2)
       IN /\ deployments' = Store(deployments, depID, NewDeployment(depID))
          /\ simPc' = [simPc EXCEPT ![r] = "fabricate"]
          /\ simDep' = [simDep EXCEPT ![r] = depID]
          /\ callTask' = [callTask EXCEPT ![r] =
                            [TaskID |-> taskID, DeploymentID |-> depID]]
    /\ callBody' = [callBody EXCEPT ![r] = body]
    /\ callPc' = [callPc EXCEPT ![r] = "append"]
    /\ uuids' = uuids + 2
    /\ UNCHANGED <<tasks, vms, simVM, loopPc, loopUpdate, loopValue, received,
                   vmFrame>>

\* Mutant of CreateVMReturn: the update is published on the request path, so
\* the call returns only once its update has been received.
CreateVMReturnAfterSend(r) ==
    /\ callPc[r] = "append"
    /\ simPc[r] = "done"
    /\ tasks' = Append(tasks, callTask[r])
    /\ callPc' = [callPc EXCEPT ![r] = "returned"]
    /\ UNCHANGED <<deployments, vms, callBody, callTask, simPc, simDep, simVM,
                   loopPc, loopUpdate, loopValue, received, uuids, vmFrame>>

\* Mutant of CreateVMReturn: the appended slice is not assigned back.
CreateVMReturnTaskDropped(r) ==
    /\ callPc[r] = "append"
    /\ callPc' = [callPc EXCEPT ![r] = "returned"]
    /\ UNCHANGED <<tasks, deployments, vms, callBody, callTask, simPc, simDep,
                   simVM, loopPc, loopUpdate, loopValue, received, uuids,
                   vmFrame>>

\* s.tasks = append(s.tasks, task); return &task, nil
CreateVMReturn(r) ==
    /\ callPc[r] = "append"
    /\ tasks' = Append(tasks, callTask[r])
    /\ callPc' = [callPc EXCEPT ![r] = "returned"]
    /\ UNCHANGED <<deployments, vms, callBody, callTask, simPc, simDep, simVM,
                   loopPc, loopUpdate, loopValue, received, uuids, vmFrame>>

\* The append of line 61 as concurrent requests run it: the read of s.tasks ...
CreateVMReadTasks(r) ==
    /\ callPc[r] = "append"
    /\ callOld' = [callOld EXCEPT ![r] = tasks]
    /\ callPc' = [callPc EXCEPT ![r] = "write"]
    /\ UNCHANGED <<tasks, deployments, vms, callBody, callTask, simPc, simDep,
                   simVM, loopPc, loopUpdate, loopValue, received, uuids,
                   tokenVars, listVars, rejPc, rejTok, rejOld, gwVars>>

\* ... and the write of the appended slice, then return &task, nil.
CreateVMWriteTasks(r) ==
    /\ callPc[r] = "write"
    /\ tasks' = Append(callOld[r], callTask[r])
    /\ callPc' = [callPc EXCEPT ![r] = "returned"]
    /\ UNCHANGED <<deployments, vms, callBody, callTask, simPc, simDep, simVM,
                   loopPc, loopUpdate, loopValue, received, uuids, callOld,
                   tokenVars, listVars, rejPc, rejTok, rejOld, gwVars>>

\* Mutant of SimFabricate: the VM is built and announced but not stored.
SimFabricateUnstored(r) ==
    /\ simPc[r] = "fabricate"
    /\ simVM' = [simVM EXCEPT ![r] = NewVM(NewUUID(uuids + 1), callBody[r])]
    /\ simPc' = [simPc EXCEPT ![r] = "send"]
    /\ uuids' = uuids + 1
    /\ UNCHANGED <<tasks, deployments, vms, callPc, callBody, callTask, simDep,
                   loopPc, loopUpdate, loopValue, received, vmFrame>>

\* simulateVMCreation up to s.vms.Store: the map holds the *VM.
SimFabricate(r) ==
    /\ simPc[r] = "fabricate"
    /\ LET vm == NewVM(NewUUID(uuids + 1), callBody[r])
       IN /\ vms' = Store(vms, vm.ID, [kind |-> "*VM", val |-> vm])
          /\ simVM' = [simVM EXCEPT ![r] = vm]
    /\ simPc' = [simPc EXCEPT ![r] = "send"]
    /\ uuids' = uuids + 1
    /\ UNCHANGED <<tasks, deployments, callPc, callBody, callTask, simDep,
                   loopPc, loopUpdate, loopValue, received, vmFrame>>

\* go vmService.UpdateDeploymentStatus() gets to its range statement.
LoopStart ==
    /\ loopPc = "start"
    /\ loopPc' = "recv"
    /\ UNCHANGED <<tasks, deployments, vms, callPc, callBody, callTask, simPc,
                   simDep, simVM, loopUpdate, loopValue, received, uuids,
                   vmFrame>>

\* The unbuffered channel: goroutine r's send and the loop's receive meet.
LoopReceive(r) ==
    /\ loopPc = "recv"
    /\ simPc[r] = "send"
    /\ LET update == UpdateOf(simDep[r], simVM[r])
       IN /\ loopUpdate' = update
          /\ received' = Append(received, update)
    /\ simPc' = [simPc EXCEPT ![r] = "done"]
    /\ loopPc' = "load"
    /\ UNCHANGED <<tasks, deployments, vms, callPc, callBody, callTask, simDep,
                   simVM, loopValue, uuids, vmFrame>>

\* value, ok := s.deployments.Load(update.DeploymentID); if !ok { continue }
LoopLoad ==
    /\ loopPc = "load"
    /\ IF loopUpdate.DeploymentID \in DOMAIN deployments
       THEN /\ loopValue' = deployments[loopUpdate.DeploymentID]
            /\ loopPc' = "store"
       ELSE /\ loopValue' = loopValue
            /\ loopPc' = "recv"
    /\ UNCHANGED <<tasks, deployments, vms, callPc, callBody, callTask, simPc,
                   simDep, simVM, loopUpdate, received, uuids, vmFrame>>

\* Mutant of LoopStore: the function returns after its first update.
LoopStoreThenReturn ==
    /\ loopPc = "store"
    /\ deployments' = Store(deployments, loopUpdate.DeploymentID,
                            Reconciled(loopValue, loopUpdate))
    /\ loopPc' = "exited"
    /\ UNCHANGED <<tasks, vms, callPc, callBody, callTask, simPc, simDep, simVM,
                   loopUpdate, loopValue, received, uuids, vmFrame>>

\* deployment.Status = "created"; s.deployments.Store(update.DeploymentID, deployment)
LoopStore ==
    /\ loopPc = "store"
    /\ deployments' = Store(deployments, loopUpdate.DeploymentID,
                            Reconciled(loopValue, loopUpdate))
    /\ loopPc' = "recv"
    /\ UNCHANGED <<tasks, vms, callPc, callBody, callTask, simPc, simDep, simVM,
                   loopUpdate, loopValue, received, uuids, vmFrame>>

\* ListTasks: the slice itself.
ListTasks ==
    /\ listed' = [op |-> "ListTasks", panic |-> FALSE, items |-> {}, list |-> tasks]
    /\ UNCHANGED <<tokenVars, vmVars, uuids, raceVars, gwVars>>

\* ListDeployments: the map holds VMDeployment values, as value.(VMDeployment)
\* expects; Range's order is left out.
ListDeployments ==
    /\ listed' = [op |-> "ListDeployments", panic |-> FALSE,
                  items |-> {deployments[k] : k \in DOMAIN deployments},
                  list |-> <<>>]
    /\ UNCHANGED <<tokenVars, vmVars, uuids, raceVars, gwVars>>

\* value.(VM) on each value of the VM map: a value of another dynamic type
\* (the *VM simulateVMCreation stores) makes the assertion panic.
ListVMsPanics(m) == \E k \in DOMAIN m : m[k].kind # "VM"

ListVMs ==
    /\ listed' = IF ListVMsPanics(vms)
                 THEN [op |-> "ListVMs", panic |-> TRUE, items |-> {}, list |-> <<>>]
                 ELSE [op |-> "ListVMs", panic |-> FALSE,
                       items |-> {vms[k].val : k \in DOMAIN vms}, list |-> <<>>]
    /\ UNCHANGED <<tokenVars, vmVars, uuids, raceVars, gwVars>>

VMInit ==
    /\ tasks = <<>>
    /\ deployments = <<>>
    /\ vms = <<>>
    /\ callPc = [r \in Calls |-> "idle"]
    /\ callBody = [r \in Calls |-> NoBody]
    /\ callTask = [r \in Calls |-> NoTask]
    /\ simPc = [r \in Calls |-> "none"]
    /\ simDep = [r \in Calls |-> EmptyString]
    /\ simVM = [r \in Calls |-> NoVM]
    /\ loopPc = "start"
    /\ loopUpdate = NoUpdate
    /\ loopValue = NoDeployment
    /\ received = <<>>

\* NewUserService: the embedded users, with the fields login and the token
\* service read.
EmbeddedUsers ==
    << [ID |-> "embedded1", Name |-> "John", Password |-> "VMware1!", Role |-> ""],
       [ID |-> "embedded2", Name |-> "Jane", Password |-> "VMware1!", Role |-> ""] >>

Racers == 1..MaxRacers

NoList == [op |-> "none", panic |-> FALSE, items |-> {}, list |-> <<>>]

ExtraInit ==
    /\ users = EmbeddedUsers
    /\ usersCreated = 0
    /\ resp = NoResp
    /\ listed = NoList
    /\ callOld = [r \in Calls |-> <<>>]
    /\ rejPc = [p \in Racers |-> "idle"]
    /\ rejTok = [p \in Racers |-> Garbage]
    /\ rejOld = [p \in Racers |-> <<>>]

Init == TokenInit /\ VMInit /\ ExtraInit /\ uuids = 0

\* ------------------------------------------------------------- user service

NoStoredUser == [ID |-> "", Name |-> "", Password |-> "", Role |-> ""]

\* uuid.NewString() of the n-th CreateUser call.
UserID(n) == "u" \o ToString(n)

\* for i, u := range s.users with a return in the body: the first of the
\* indices the condition holds at, 0 where the loop runs to its end.
FirstIndex(indices) ==
    IF indices = {} THEN 0
    ELSE CHOOSE i \in indices : \A j \in indices : i <= j

\* Mutant of ValidateCredentials: the password is not compared.
ValidateCredentialsNameOnly(us, body) ==
    LET i == FirstIndex({k \in 1..Len(us) : us[k].Name = body.Name}) IN
    IF i = 0 THEN [err |-> "invalid credentials", user |-> NoStoredUser]
    ELSE [err |-> "nil", user |-> us[i]]

ValidateCredentials(us, body) ==
    LET i == FirstIndex({k \in 1..Len(us) :
                               /\ us[k].Name = body.Name
                               /\ us[k].Password = body.Password}) IN
    IF i = 0 THEN [err |-> "invalid credentials", user |-> NoStoredUser]
    ELSE [err |-> "nil", user |-> us[i]]

CreateUser(us, body, id) ==
    Append(us, [ID |-> id, Name |-> body.Name, Password |-> body.Password,
                Role |-> body.Role])

GetUser(us, id) ==
    LET i == FirstIndex({k \in 1..Len(us) : us[k].ID = id}) IN
    IF i = 0 THEN [err |-> "User not found", user |-> NoStoredUser]
    ELSE [err |-> "nil", user |-> us[i]]

\* s.users = append(s.users[:i], s.users[i+1:]...)
DeleteUser(us, id) ==
    LET i == FirstIndex({k \in 1..Len(us) : us[k].ID = id}) IN
    IF i = 0 THEN [err |-> "User not found", users |-> us]
    ELSE [err |-> "nil",
          users |-> SubSeq(us, 1, i - 1) \o SubSeq(us, i + 1, Len(us))]

\* The ID stays; the other fields are the body's.
UpdateUser(us, id, body) ==
    LET i == FirstIndex({k \in 1..Len(us) : us[k].ID = id}) IN
    IF i = 0 THEN [err |-> "user not found", users |-> us]
    ELSE [err |-> "nil",
          users |-> [us EXCEPT ![i] =
                        [ID |-> us[i].ID, Name |-> body.Name,
                         Password |-> body.Password, Role |-> body.Role]]]

\* ------------------------------------------------------------------ gateway

\* "Bearer "
Bearer == <<"B", "e", "a", "r", "e", "r", " ">>

\* Login bodies: an embedded user's credentials, a wrong password, and the
\* credentials UserBodies gives a user.
LoginBodies ==
    { [Name |-> "John", Password |-> "VMware1!"],
      [Name |-> "John", Password |-> "wrong"],
      [Name |-> "Bob", Password |-> "pw2"] }

\* Bodies of POST /users and PUT /users/:id.
UserBodies == { [Name |-> "Bob", Password |-> "pw2", Role |-> "admin"] }

\* The :id of a user route: a stored user, nobody.
UserIDs == {"embedded1", "nobody"}

\* Header values a client sends: none, one shorter than the prefix, the
\* prefix and a token string: an issued one, one with a forged signature, or
\* garbage.
Headers ==
    {NoHeader, Header(SubSeq(Bearer, 1, PrefixLen - 1), NoTail)}
        \cup {Header(Bearer, t) : t \in issued \cup {Garbage}}
        \cup {Header(Bearer, Tamper(t)) : t \in issued}

\* tokenString[7:].  Token strings are longer than the prefix: a header with
\* less than 7 characters before one is cut inside the token string, one with
\* more keeps characters in front of it; with nothing behind less than 7
\* characters the slice expression panics.
Sliced(h) ==
    IF Len(h.pre) < PrefixLen /\ h.tail = NoTail
    THEN [panic |-> TRUE, tok |-> NoTail]
    ELSE IF Len(h.pre) = PrefixLen THEN [panic |-> FALSE, tok |-> h.tail]
    ELSE [panic |-> FALSE, tok |-> Garbage]

\* What the middleware decides for a header: the status it writes when it
\* does not call ctx.Next() (500 from Recovery after a panic), the user it
\* sets, and the ValidateToken call it made, if any.
AuthResult(status, next, panic, err, user, called, tok) ==
    [status |-> status, next |-> next, panic |-> panic, err |-> err,
     user |-> user, called |-> called, tok |-> tok]

\* Mutant of AuthMiddleware: no ctx.Abort() after a failed validation.
AuthMiddlewareNoAbort(h, at, rejected) ==
    IF h = NoHeader
    THEN AuthResult(401, FALSE, FALSE, "No token provided", NoUser, FALSE, NoTail)
    ELSE IF Sliced(h).panic
    THEN AuthResult(500, FALSE, TRUE, "panic", NoUser, FALSE, NoTail)
    ELSE LET v == ValidateResult(Sliced(h).tok, at, rejected) IN
         IF v.err = "panic"
         THEN AuthResult(500, FALSE, TRUE, "panic", NoUser, TRUE, Sliced(h).tok)
         ELSE AuthResult(200, TRUE, FALSE, v.err, v.user, TRUE, Sliced(h).tok)

AuthMiddleware(h, at, rejected) ==
    IF h = NoHeader
    THEN AuthResult(401, FALSE, FALSE, "No token provided", NoUser, FALSE, NoTail)
    ELSE IF Sliced(h).panic
    THEN AuthResult(500, FALSE, TRUE, "panic", NoUser, FALSE, NoTail)
    ELSE LET v == ValidateResult(Sliced(h).tok, at, rejected) IN
         IF v.err = "panic"
         THEN AuthResult(500, FALSE, TRUE, "panic", NoUser, TRUE, Sliced(h).tok)
         ELSE IF v.err # "nil"
         THEN AuthResult(401, FALSE, FALSE, v.err, NoUser, TRUE, Sliced(h).tok)
         ELSE AuthResult(200, TRUE, FALSE, "nil", v.user, TRUE, Sliced(h).tok)

\* The request ends in the middleware: its response, and the ValidateToken
\* call where one was made.
Refuse(route, h, body, a) ==
    /\ resp' = Response(route, h, body, a.status, FALSE, a.panic, NoUser, a.err)
    /\ lastCall' = IF a.called
                   THEN Call("ValidateToken", a.tok, a.err, NoUser)
                   ELSE lastCall

\* The handler of a route that changes nothing answers with a status.
Answer(route, h, body, a, status, err) ==
    /\ resp' = Response(route, h, body, status, TRUE, FALSE, a.user, err)
    /\ lastCall' = Call("ValidateToken", a.tok, "nil", a.user)

\* POST /login
login(body) ==
    /\ resp = NoResp
    /\ ValidateCredentials(users, body).err = "nil" =>
           Cardinality(issued) < MaxLogins
    /\ LET v == ValidateCredentials(users, body) IN
         IF v.err # "nil"
         THEN /\ resp' = Response("login", NoHeader, body, 400, FALSE, FALSE,
                                  NoUser, v.err)
              /\ UNCHANGED <<issued, uuids, lastCall>>
         ELSE LET t == MintToken(v.user, now, NewUUID(uuids + 1))
                  u == [ID |-> v.user.ID, Name |-> v.user.Name,
                        Role |-> v.user.Role]
              IN /\ issued' = issued \cup {t}
                 /\ uuids' = uuids + 1
                 /\ lastCall' = Call("GenerateToken", t, "nil", u)
                 /\ resp' = Response("login", NoHeader, body, 200, FALSE, FALSE,
                                     u, "")
    /\ UNCHANGED <<now, ticks, rejectedTokens, rejectedOK, users, usersCreated,
                   vmVars, listVars, raceVars>>

\* GET /
home(h) ==
    /\ resp = NoResp
    /\ LET a == AuthMiddleware(h, now, rejectedTokens) IN
         IF a.next THEN Answer("home", h, NoUserBody, a, 200, "")
         ELSE Refuse("home", h, NoUserBody, a)
    /\ UNCHANGED <<now, ticks, uuids, rejectedTokens, issued, rejectedOK, users,
                   usersCreated, vmVars, listVars, raceVars>>

\* POST /users
createUser(h, body) ==
    /\ resp = NoResp
    /\ usersCreated < MaxCreated
    /\ LET a == AuthMiddleware(h, now, rejectedTokens) IN
         IF a.next
         THEN /\ users' = CreateUser(users, body, UserID(usersCreated + 1))
              /\ usersCreated' = usersCreated + 1
              /\ Answer("createUser", h, body, a, 201, "")
         ELSE /\ Refuse("createUser", h, body, a)
              /\ UNCHANGED <<users, usersCreated>>
    /\ UNCHANGED <<now, ticks, uuids, rejectedTokens, issued, rejectedOK,
                   vmVars, listVars, raceVars>>

\* GET /users
listUsers(h) ==
    /\ resp = NoResp
    /\ LET a == AuthMiddleware(h, now, rejectedTokens) IN
         IF a.next THEN Answer("listUsers", h, NoUserBody, a, 200, "")
         ELSE Refuse("listUsers", h, NoUserBody, a)
    /\ UNCHANGED <<now, ticks, uuids, rejectedTokens, issued, rejectedOK, users,
                   usersCreated, vmVars, listVars, raceVars>>

\* GET /users/:id
getUser(h, id) ==
    /\ resp = NoResp
    /\ LET a == AuthMiddleware(h, now, rejectedTokens) IN
         IF a.next
         THEN IF GetUser(users, id).err = "nil"
              THEN Answer("getUser", h, NoUserBody, a, 200, "")
              ELSE Answer("getUser", h, NoUserBody, a, 404, GetUser(users, id).err)
         ELSE Refuse("getUser", h, NoUserBody, a)
    /\ UNCHANGED <<now, ticks, uuids, rejectedTokens, issued, rejectedOK, users,
                   usersCreated, vmVars, listVars, raceVars>>

\* PUT /users/:id
updateUser(h, id, body) ==
    /\ resp = NoResp
    /\ LET a == AuthMiddleware(h, now, rejectedTokens)
           r == UpdateUser(users, id, body)
       IN IF a.next
          THEN /\ users' = r.users
               /\ IF r.err = "nil"
                  THEN Answer("updateUser", h, body, a, 200, "")
                  ELSE Answer("updateUser", h, body, a, 400, r.err)
          ELSE /\ Refuse("updateUser", h, body, a)
               /\ users' = users
    /\ UNCHANGED <<now, ticks, uuids, rejectedTokens, issued, rejectedOK,
                   usersCreated, vmVars, listVars, raceVars>>

\* DELETE /users/:id
deleteUser(h, id) ==
    /\ resp = NoResp
    /\ LET a == AuthMiddleware(h, now, rejectedTokens)
           r == DeleteUser(users, id)
       IN IF a.next
          THEN /\ users' = r.users
               /\ IF r.err = "nil"
                  THEN Answer("deleteUser", h, NoUserBody, a, 204, "")
                  ELSE Answer("deleteUser", h, NoUserBody, a, 404, r.err)
          ELSE /\ Refuse("deleteUser", h, NoUserBody, a)
               /\ users' = users
    /\ UNCHANGED <<now, ticks, uuids, rejectedTokens, issued, rejectedOK,
                   usersCreated, vmVars, listVars, raceVars>>

\* POST /reject: the handler reads the header again, slices it again and
\* calls RejectToken.
reject(h) ==
    /\ resp = NoResp
    /\ Len(rejectedTokens) < MaxRejected
    /\ LET a == AuthMiddleware(h, now, rejectedTokens) IN
         IF ~a.next
         THEN /\ Refuse("reject", h, NoUserBody, a)
              /\ UNCHANGED <<rejectedTokens, rejectedOK>>
         ELSE IF h = NoHeader
         THEN /\ Answer("reject", h, NoUserBody, a, 401, "No token provided")
              /\ UNCHANGED <<rejectedTokens, rejectedOK>>
         ELSE IF Sliced(h).panic
         THEN /\ resp' = Response("reject", h, NoUserBody, 500, TRUE, TRUE,
                                  a.user, "panic")
              /\ lastCall' = Call("ValidateToken", a.tok, "nil", a.user)
              /\ UNCHANGED <<rejectedTokens, rejectedOK>>
         ELSE LET t == Sliced(h).tok
                  err == RejectErr(t, now)
              IN /\ rejectedTokens' = RejectedAfter(t, now, rejectedTokens)
                 /\ rejectedOK' = IF err = "nil" THEN rejectedOK \cup {t}
                                  ELSE rejectedOK
                 /\ lastCall' = Call("RejectToken", t, err, NoUser)
                 /\ resp' = IF err = "nil"
                            THEN Response("reject", h, NoUserBody, 200, TRUE,
                                          FALSE, a.user, "")
                            ELSE Response("reject", h, NoUserBody, 500, TRUE,
                                          err = "panic", a.user, err)
    /\ UNCHANGED <<now, ticks, uuids, issued, users, usersCreated, vmVars,
                   listVars, raceVars>>

\* GET /rejected
listRejected(h) ==
    /\ resp = NoResp
    /\ LET a == AuthMiddleware(h, now, rejectedTokens) IN
         IF a.next
         THEN /\ resp' = Response("listRejected", h, NoUserBody, 200, TRUE,
                                  FALSE, a.user, "")
              /\ lastCall' = Call("GetRejectedTokens", Garbage, "nil", NoUser)
         ELSE Refuse("listRejected", h, NoUserBody, a)
    /\ UNCHANGED <<now, ticks, uuids, rejectedTokens, issued, rejectedOK, users,
                   usersCreated, vmVars, listVars, raceVars>>

\* POST /vms: request r's CreateVM runs from its first line to its return.
createVM(h, r, body) ==
    /\ resp = NoResp
    /\ callPc[r] = "idle"
    /\ \A q \in Calls : q < r => callPc[q] # "idle"
    /\ LET a == AuthMiddleware(h, now, rejectedTokens)
           task == [TaskID |-> NewUUID(uuids + 1),
                    DeploymentID |-> NewUUID(uuids + 2)]
       IN IF a.next
          THEN /\ deployments' = Store(deployments, task.DeploymentID,
                                       NewDeployment(task.DeploymentID))
               /\ simPc' = [simPc EXCEPT ![r] = "fabricate"]
               /\ simDep' = [simDep EXCEPT ![r] = task.DeploymentID]
               /\ callTask' = [callTask EXCEPT ![r] = task]
               /\ callBody' = [callBody EXCEPT ![r] = body]
               /\ tasks' = Append(tasks, task)
               /\ callPc' = [callPc EXCEPT ![r] = "returned"]
               /\ uuids' = uuids + 2
               /\ Answer("createVM", h, NoUserBody, a, 201, "")
          ELSE /\ Refuse("createVM", h, NoUserBody, a)
               /\ UNCHANGED <<deployments, simPc, simDep, callTask, callBody,
                              tasks, callPc, uuids>>
    /\ UNCHANGED <<now, ticks, rejectedTokens, issued, rejectedOK, users,
                   usersCreated, vms, simVM, loopPc, loopUpdate, loopValue,
                   received, listVars, raceVars>>

\* The response has been written: the request is over.
Done ==
    /\ resp # NoResp
    /\ resp' = NoResp
    /\ lastCall' = NoCall
    /\ UNCHANGED <<now, ticks, uuids, rejectedTokens, issued, rejectedOK, users,
                   usersCreated, vmVars, listVars, raceVars>>

\* The routes of the authorized group.
AuthorizedRoutes ==
    {"home", "createUser", "listUsers", "getUser", "updateUser", "deleteUser",
     "reject", "listRejected", "createVM"}

GatewayNext ==
    \/ Done
    \/ \E body \in LoginBodies : login(body)
    \/ \E h \in Headers : home(h)
    \/ \E h \in Headers, body \in UserBodies : createUser(h, body)
    \/ \E h \in Headers : listUsers(h)
    \/ \E h \in Headers, id \in UserIDs : getUser(h, id)
    \/ \E h \in Headers, id \in UserIDs, body \in UserBodies :
           updateUser(h, id, body)
    \/ \E h \in Headers, id \in UserIDs : deleteUser(h, id)
    \/ \E h \in Headers : reject(h)
    \/ \E h \in Headers : listRejected(h)
    \/ \E h \in Headers, r \in Calls, body \in {b \in Bodies : b.Name # ""} :
           createVM(h, r, body)
    \/ ticks < MaxWindows /\ Tick(ValidityWindow)

\* The server: login and the routes behind the middleware, a request taken up
\* when the response to the one before has been written.  The clock is read
\* once per validity window; the goroutines CreateVM starts are followed in
\* VMSpec.
GatewaySpec == Init /\ [][GatewayNext]_vars

TokenNext ==
    \/ \E u \in Users : GenerateToken(u)
    \/ \E t \in Presentable : ValidateToken(t)
    \/ \E t \in Presentable : RejectToken(t)
    \/ GetRejectedTokens
    \/ \E d \in TickSteps : Tick(d)

\* The token service under sequential calls and a moving clock.
TokenSpec == Init /\ [][TokenNext]_vars

TokenCraftNext ==
    \/ TokenNext
    \/ \E t \in Crafted(now) : ValidateToken(t)
    \/ \E t \in Crafted(now) : RejectToken(t)

\* The token service also handed tokens that another holder of the secret
\* signed.
TokenCraftSpec == Init /\ [][TokenCraftNext]_vars

VMNext ==
    \/ \E r \in Calls, body \in Bodies : CreateVMBegin(r, body)
    \/ \E r \in Calls : CreateVMReturn(r)
    \/ \E r \in Calls : SimFabricate(r)
    \/ LoopStart
    \/ \E r \in Calls : LoopReceive(r)
    \/ LoopLoad
    \/ LoopStore

\* The VM service: requests, their goroutines and the reconciliation loop.
VMSpec == Init /\ [][VMNext]_vars

ListNext ==
    \/ ListTasks
    \/ ListDeployments
    \/ ListVMs

VMListNext == VMNext \/ ListNext

\* The VM service with its three List calls.
VMListSpec == Init /\ [][VMListNext]_vars

VMRaceNext ==
    \/ \E r \in Calls, body \in Bodies : CreateVMBegin(r, body)
    \/ \E r \in Calls : CreateVMReadTasks(r)
    \/ \E r \in Calls : CreateVMWriteTasks(r)
    \/ \E r \in Calls : SimFabricate(r)
    \/ LoopStart
    \/ \E r \in Calls : LoopReceive(r)
    \/ LoopLoad
    \/ LoopStore
    \/ ListTasks

\* The VM service under concurrent requests: each request's append to the task
\* slice is a read and a write that other requests can come between.
VMRaceSpec == Init /\ [][VMRaceNext]_vars

TokenRaceNext ==
    \/ \E u \in Users : GenerateToken(u)
    \/ \E t \in Presentable : ValidateToken(t)
    \/ \E p \in Racers, t \in Presentable : RejectRead(p, t)
    \/ \E p \in Racers : RejectWrite(p)
    \/ \E d \in TickSteps : Tick(d)

\* The token service under concurrent RejectToken requests.
TokenRaceSpec == Init /\ [][TokenRaceNext]_vars

\* The Go scheduler runs every runnable goroutine, and a send and a receive
\* that are both ready meet.
VMFairness ==
    /\ WF_vars(LoopStart)
    /\ WF_vars(\E r \in Calls : LoopReceive(r))
    /\ WF_vars(LoopLoad)
    /\ WF_vars(LoopStore)
    /\ \A r \in Calls : WF_vars(SimFabricate(r))

VMLive == VMSpec /\ VMFairness

\* ------------------------------------------------------------------ claims

\* The status ListDeployments shows for a deployment ID.
StatusOf(id) ==
    IF id \in DOMAIN deployments THEN deployments[id].Status ELSE "absent"

\* How many received updates name a deployment.
UpdatesNaming(id) ==
    Cardinality({i \in 1..Len(received) : received[i].DeploymentID = id})

\* C1: under fair scheduling, with the reconciliation loop started by main,
\* the deployment stored by every CreateVM call eventually has status
\* "created".
C1_DeploymentEventuallyCreated ==
    \A r \in Calls :
        (callPc[r] # "idle") ~> (StatusOf(callTask[r].DeploymentID) = "created")

C1_Witness ==
    \E r \in Calls :
        /\ callPc[r] # "idle"
        /\ StatusOf(callTask[r].DeploymentID) = "created"

\* C2: every deployment with status "created" carries a non-empty ResourceID,
\* the ID of the VM its own background task built.
C2_CreatedHasResourceID ==
    \A r \in Calls :
        StatusOf(callTask[r].DeploymentID) = "created" =>
            /\ deployments[callTask[r].DeploymentID].ResourceID # EmptyString
            /\ deployments[callTask[r].DeploymentID].ResourceID = simVM[r].ID

\* C3: ValidateToken on an issued, unexpired token on which RejectToken has
\* returned nil fails with "token is rejected", whatever calls came between.
C3_RevokedTokenIsRejected ==
    ( /\ lastCall.op = "ValidateToken"
      /\ lastCall.tok \in issued
      /\ lastCall.tok \in rejectedOK
      /\ now < lastCall.tok.exp )
    => lastCall.err = "token is rejected"

C3_Witness ==
    /\ lastCall.op = "ValidateToken"
    /\ lastCall.tok \in issued \cap rejectedOK
    /\ now < lastCall.tok.exp
    /\ Len(rejectedTokens) > 1
    /\ lastCall.tok.jti = rejectedTokens[1]
    /\ lastCall.err = "token is rejected"

\* C4: ValidateToken on an issued, unexpired, unrevoked token succeeds and
\* returns the user ID, the name and the role the claims were issued with.
C4_ValidateReturnsIssuedIdentity ==
    ( /\ lastCall.op = "ValidateToken"
      /\ lastCall.tok \in issued
      /\ lastCall.tok \notin rejectedOK
      /\ now < lastCall.tok.exp )
    => /\ lastCall.err = "nil"
       /\ lastCall.user.ID = lastCall.tok.user_id
       /\ lastCall.user.Name = lastCall.tok.name
       /\ lastCall.user.Role = lastCall.tok.role

\* C5: a token issued at time t carries expiry t + 10 minutes; ValidateToken
\* on a never-revoked token succeeds strictly before the expiry, and fails as
\* expired at or past it.
C5_ExpiryWindow ==
    /\ lastCall.op = "GenerateToken" => lastCall.tok.exp = now + 10 * 60
    /\ ( /\ lastCall.op = "ValidateToken"
         /\ lastCall.tok \in issued
         /\ lastCall.tok \notin rejectedOK )
       => /\ now < lastCall.tok.exp => lastCall.err = "nil"
          /\ now >= lastCall.tok.exp => lastCall.err = "token is expired"

C5_Witness ==
    /\ lastCall.op = "ValidateToken"
    /\ lastCall.tok \in issued
    /\ lastCall.tok \notin rejectedOK
    /\ now = lastCall.tok.exp
    /\ lastCall.err = "token is expired"

\* C6: ValidateToken reports structural and signature failures first, then
\* expiry, then revocation: a token that is not authentic is never reported
\* rejected (or expired) even with its jti on the rejected list, and an
\* authentic token both expired and revoked is reported expired.
C6_FailureOrder ==
    lastCall.op = "ValidateToken" =>
        /\ lastCall.tok \notin issued =>
               lastCall.err \in {"token is malformed", "unexpected signing method",
                                 "signature is invalid"}
        /\ (lastCall.tok \in issued /\ now >= lastCall.tok.exp) =>
               lastCall.err = "token is expired"
        /\ (lastCall.tok \in issued /\ now < lastCall.tok.exp) =>
               lastCall.err = IF lastCall.tok \in rejectedOK
                              THEN "token is rejected" ELSE "nil"

C6_Witness ==
    /\ lastCall.op = "ValidateToken"
    /\ lastCall.tok \in issued \cap rejectedOK
    /\ now >= lastCall.tok.exp
    /\ lastCall.err = "token is expired"

\* C7: a second RejectToken on the same authentic (and still unexpired) token
\* returns nil and leaves the rejected list, hence GetRejectedTokens' result,
\* as it was.
C7_RejectTwiceIsNoOp ==
    [][ ( /\ lastCall'.op = "RejectToken"
          /\ lastCall'.tok \in rejectedOK
          /\ now < lastCall'.tok.exp )
        => /\ lastCall'.err = "nil"
           /\ rejectedTokens' = rejectedTokens ]_vars

\* C8: RejectToken on a token that is malformed, badly signed or of a
\* non-HMAC algorithm returns an error and leaves the rejected list
\* unchanged; the list changes only by RejectToken appending the jti of an
\* authentic token.
C8_OnlyAuthenticTokensAreRejected ==
    [][ /\ (lastCall'.op = "RejectToken" /\ lastCall'.tok \notin issued) =>
              /\ lastCall'.err # "nil"
              /\ rejectedTokens' = rejectedTokens
        /\ rejectedTokens' # rejectedTokens =>
              /\ lastCall'.op = "RejectToken"
              /\ lastCall'.tok \in issued
              /\ rejectedTokens' = Append(rejectedTokens, lastCall'.tok.jti) ]_vars

C8_Witness ==
    /\ lastCall.op = "RejectToken"
    /\ lastCall.tok \notin issued
    /\ lastCall.tok.form = "jwt"
    /\ lastCall.err # "nil"
    /\ Len(rejectedTokens) > 0

\* C9: a deployment is in-progress until the one update naming it has been
\* processed and created from then on: its status changes at most once, from
\* in-progress to created, and it is never removed from the map.
C9_DeploymentLifecycle ==
    [][ /\ \A id \in DOMAIN deployments :
              /\ id \in DOMAIN deployments'
              /\ deployments[id].Status = "created" =>
                     deployments'[id].Status = "created"
              /\ deployments'[id].Status # deployments[id].Status =>
                     /\ deployments[id].Status = "in-progress"
                     /\ loopUpdate.DeploymentID = id
        /\ \A id \in DOMAIN deployments' :
              /\ deployments'[id].Status \in {"in-progress", "created"}
              /\ UpdatesNaming(id)' <= 1
              /\ deployments'[id].Status = "created" => UpdatesNaming(id)' = 1
              /\ deployments'[id].Status = "in-progress" =>
                     \/ UpdatesNaming(id)' = 0
                     \/ /\ loopPc' \in {"load", "store"}
                        /\ loopUpdate'.DeploymentID = id ]_vars

C9_Witness ==
    \E id \in DOMAIN deployments, other \in DOMAIN deployments :
        /\ deployments[id].Status = "created"
        /\ deployments[other].Status = "in-progress"
        /\ UpdatesNaming(id) = 1

\* C10: when CreateVM has returned, the deployment map holds a deployment
\* under the returned task's DeploymentID, which was stored in-progress with
\* an empty ResourceID, and the task list holds the returned task, whose
\* TaskID no other task has.
C10_CreateVMSynchronousEffects ==
    [][ /\ \A r \in Calls :
              (callPc[r] = "idle" /\ callPc'[r] # "idle") =>
                  /\ callTask'[r].DeploymentID \in DOMAIN deployments'
                  /\ deployments'[callTask'[r].DeploymentID] =
                         [ID |-> callTask'[r].DeploymentID,
                          ResourceID |-> EmptyString,
                          Status |-> "in-progress"]
        /\ \A r \in Calls :
              callPc'[r] = "returned" =>
                  /\ callTask'[r].TaskID # EmptyString
                  /\ callTask'[r].DeploymentID \in DOMAIN deployments'
                  /\ deployments'[callTask'[r].DeploymentID].ID =
                         callTask'[r].DeploymentID
                  /\ \E i \in 1..Len(tasks') : tasks'[i] = callTask'[r]
                  /\ \A i, j \in 1..Len(tasks') :
                         tasks'[i].TaskID = tasks'[j].TaskID => i = j ]_vars

C10_Witness ==
    \E r \in Calls :
        /\ callPc[r] = "returned"
        /\ StatusOf(callTask[r].DeploymentID) = "in-progress"
        /\ Len(tasks) > 1

\* C11: CreateVM never waits for the update channel: a request can always
\* take its next step, also while the reconciliation loop is not receiving
\* and earlier goroutines are blocked in their send; a blocked goroutine's
\* deployment stays in-progress and its update is delivered unchanged when the
\* loop receives it, never dropped.
C11_CreateVMNeverBlocks ==
    /\ [] /\ \A r \in Calls : callPc[r] = "append" => ENABLED CreateVMReturn(r)
          /\ \A r \in Calls :
                 (callPc[r] = "idle" /\ \A q \in Calls : q < r => callPc[q] # "idle")
                     => ENABLED (\E body \in Bodies : CreateVMBegin(r, body))
          /\ \A r \in Calls :
                 simPc[r] = "send" =>
                     /\ StatusOf(simDep[r]) = "in-progress"
                     /\ UpdatesNaming(simDep[r]) = 0
          /\ \A r \in Calls :
                 simPc[r] = "done" =>
                     \E i \in 1..Len(received) :
                         received[i] = [DeploymentID |-> simDep[r],
                                        ResourceID |-> simVM[r].ID]
    /\ [][ \A r \in Calls :
               simPc[r] = "send" =>
                   \/ /\ simPc'[r] = "send"
                      /\ simDep'[r] = simDep[r]
                      /\ simVM'[r] = simVM[r]
                   \/ /\ simPc'[r] = "done"
                      /\ received' = Append(received,
                                            [DeploymentID |-> simDep[r],
                                             ResourceID |-> simVM[r].ID]) ]_vars

C11_Witness ==
    /\ loopPc = "start"
    /\ \E r, q \in Calls :
           /\ r < q
           /\ simPc[r] = "send"
           /\ callPc[q] = "returned"

\* C12: for the requests made so far, under every interleaving: as many
\* deployments as requests and as many VMs as goroutines that built one; each
\* goroutine publishes one update, naming its own request's deployment and the
\* VM built from its own request's body; each received update is one of these,
\* and a deployment is created only by the one update of its own request.
C12_NoCrossLinking ==
    LET started == {r \in Calls : callPc[r] # "idle"}
        fabricated == {r \in Calls : simPc[r] \in {"send", "done"}}
        published == {r \in Calls : simPc[r] = "done"}
        OwnUpdate(r) == [DeploymentID |-> callTask[r].DeploymentID,
                         ResourceID |-> simVM[r].ID]
    IN  /\ Cardinality(DOMAIN deployments) = Cardinality(started)
        /\ Cardinality(DOMAIN vms) = Cardinality(fabricated)
        /\ Len(received) = Cardinality(published)
        /\ \A r \in started :
               /\ callTask[r].DeploymentID \in DOMAIN deployments
               /\ \A q \in started : q # r =>
                      callTask[q].DeploymentID # callTask[r].DeploymentID
        /\ \A r \in fabricated :
               /\ simVM[r].ID \in DOMAIN vms
               /\ vms[simVM[r].ID].val = simVM[r]
               /\ simVM[r].Name = callBody[r].Name
               /\ simVM[r].NumCPUs = callBody[r].NumCPUs
               /\ simVM[r].MemoryMB = callBody[r].MemoryMB
               /\ \A q \in fabricated : q # r => simVM[q].ID # simVM[r].ID
        /\ \A r \in published :
               Cardinality({i \in 1..Len(received) : received[i] = OwnUpdate(r)}) = 1
        /\ \A i \in 1..Len(received) :
               \E r \in published : received[i] = OwnUpdate(r)
        /\ \A r \in Calls :
               StatusOf(callTask[r].DeploymentID) = "created" =>
                   /\ r \in published
                   /\ UpdatesNaming(callTask[r].DeploymentID) = 1

C12_Witness ==
    /\ \A r \in Calls :
           /\ simPc[r] = "done"
           /\ StatusOf(callTask[r].DeploymentID) = "created"
    /\ \E r, q \in Calls : callBody[r] # callBody[q]

\* C13: a CreateVM call with an empty name is refused: it stores no
\* deployment, appends no task and starts no goroutine.
C13_EmptyNameIsRefused ==
    \A r \in Calls :
        callBody[r].Name = "" =>
            /\ callTask[r] = NoTask
            /\ simPc[r] = "none"
            /\ Cardinality(DOMAIN deployments) =
                   Cardinality({q \in Calls : callPc[q] # "idle" /\ callBody[q].Name # ""})

\* C14: ListVMs returns normally in every reachable state, and once a
\* request's goroutine has stored its VM the result holds a VM with the
\* request's name, CPU count and memory size.
C14_ListVMsNeverFails ==
    listed.op = "ListVMs" =>
        /\ ~listed.panic
        /\ \A r \in Calls :
               simPc[r] \in {"send", "done"} =>
                   \E vm \in listed.items :
                       /\ vm.Name = callBody[r].Name
                       /\ vm.NumCPUs = callBody[r].NumCPUs
                       /\ vm.MemoryMB = callBody[r].MemoryMB

\* C15: ValidateToken and RejectToken return a user or an error and never
\* panic, also for a correctly signed, unexpired token whose claims lack jti,
\* user_id or name.
C15_NeverPanics ==
    lastCall.op \in {"ValidateToken", "RejectToken"} => lastCall.err # "panic"

\* C16: GenerateToken and ValidateToken leave the rejected list as it is;
\* the list changes only in a RejectToken call that returns nil, and it holds
\* nothing but the jti of tokens so rejected: no record of issued tokens.
C16_OnlyRejectTokenChangesTheList ==
    [][ /\ lastCall'.op \in {"GenerateToken", "ValidateToken"} =>
               rejectedTokens' = rejectedTokens
        /\ rejectedTokens' # rejectedTokens =>
               /\ lastCall'.op = "RejectToken"
               /\ lastCall'.err = "nil"
        /\ \A i \in 1..Len(rejectedTokens') :
               \E t \in rejectedOK' : rejectedTokens'[i] = t.jti ]_vars

C16_Witness ==
    /\ lastCall.op = "GenerateToken"
    /\ Len(rejectedTokens) > 0
    /\ \A i \in 1..Len(rejectedTokens) : rejectedTokens[i] # lastCall.tok.jti

\* C19 as claimed: RejectToken on an issued token returns nil and records its
\* jti, whether or not its expiry has passed.
C19_ExpiredTokenCanBeRevoked ==
    (lastCall.op = "RejectToken" /\ lastCall.tok \in issued) =>
        /\ lastCall.err = "nil"
        /\ OnRejectedList(lastCall.tok, rejectedTokens)

\* C19 as amended: RejectToken returns nil and appends the jti for an issued
\* token before its expiry; at or past the expiry it returns "token is
\* expired" and leaves the list unchanged, as it does, with a structural or
\* signature error, for a token that cannot be authenticated.
C19_RejectNeedsAuthenticUnexpiredToken ==
    [][ lastCall'.op = "RejectToken" =>
            /\ (lastCall'.tok \in issued /\ now < lastCall'.tok.exp) =>
                   /\ lastCall'.err = "nil"
                   /\ rejectedTokens' = Append(rejectedTokens, lastCall'.tok.jti)
            /\ (lastCall'.tok \in issued /\ now >= lastCall'.tok.exp) =>
                   /\ lastCall'.err = "token is expired"
                   /\ rejectedTokens' = rejectedTokens
            /\ lastCall'.tok \notin issued =>
                   /\ lastCall'.err \in {"token is malformed",
                                         "unexpected signing method",
                                         "signature is invalid"}
                   /\ rejectedTokens' = rejectedTokens ]_vars

C19_Witness ==
    /\ lastCall.op = "RejectToken"
    /\ lastCall.tok \in issued
    /\ now >= lastCall.tok.exp
    /\ lastCall.err = "token is expired"
    /\ ~OnRejectedList(lastCall.tok, rejectedTokens)

\* C20: every GenerateToken call mints a jti no other token has, also for the
\* same user at the same time; ValidateToken fails as rejected only for a
\* token on which RejectToken itself returned nil, and rejecting other tokens
\* never makes an unexpired, unrejected token fail.
C20_RevocationIsPerToken ==
    /\ Cardinality(issued) = uuids
    /\ \A t1, t2 \in issued : t1 # t2 => t1.jti # t2.jti
    /\ (lastCall.op = "ValidateToken" /\ lastCall.err = "token is rejected") =>
           lastCall.tok \in rejectedOK
    /\ ( /\ lastCall.op = "ValidateToken"
         /\ lastCall.tok \in issued
         /\ lastCall.tok \notin rejectedOK
         /\ now < lastCall.tok.exp ) => lastCall.err = "nil"

C20_Witness ==
    /\ lastCall.op = "ValidateToken"
    /\ lastCall.tok \in issued
    /\ lastCall.err = "nil"
    /\ \E t1 \in rejectedOK :
           /\ t1 # lastCall.tok
           /\ t1.user_id = lastCall.tok.user_id
           /\ t1.exp = lastCall.tok.exp
           /\ OnRejectedList(t1, rejectedTokens)

\* C17: once every CreateVM call that was made has returned, ListTasks shows
\* exactly one task per call, each with the DeploymentID its call returned.
C17_OneTaskPerReturnedCall ==
    LET made == {r \in Calls : callPc[r] # "idle"} IN
    ( /\ listed.op = "ListTasks"
      /\ listed.list = tasks
      /\ \A r \in made : callPc[r] = "returned" ) =>
        /\ Len(listed.list) = Cardinality(made)
        /\ \A r \in made :
               \E i \in 1..Len(listed.list) : listed.list[i] = callTask[r]

\* C18: once concurrent RejectToken calls on distinct authentic tokens have
\* all returned, the jti of each is on the rejected list, and ValidateToken
\* never succeeds on a token RejectToken returned nil for.
C18_ConcurrentRevocationsAllRecorded ==
    /\ ( /\ \A p \in Racers : rejPc[p] = "done"
         /\ \A p, q \in Racers : p # q => rejTok[p] # rejTok[q] ) =>
           \A p \in Racers : OnRejectedList(rejTok[p], rejectedTokens)
    /\ (lastCall.op = "ValidateToken" /\ lastCall.tok \in rejectedOK) =>
           lastCall.err # "nil"

\* C22: a deployment is in the map from before its goroutine is started, so
\* every update the loop has received names a stored deployment and the loop's
\* Load never misses: the `continue` of the absent branch is never taken.
C22_LoopNeverDropsAnUpdate ==
    /\ \A r \in Calls : simPc[r] # "none" => simDep[r] \in DOMAIN deployments
    /\ \A i \in 1..Len(received) :
           received[i].DeploymentID \in DOMAIN deployments
    /\ loopPc = "load" => loopUpdate.DeploymentID \in DOMAIN deployments

C22_Witness ==
    /\ loopPc = "store"
    /\ loopValue.ID = loopUpdate.DeploymentID
    /\ loopValue = deployments[loopUpdate.DeploymentID]

\* C23: whenever a deployment has status created, the VM its goroutine built
\* is in the VM map; created deployments are never more than stored VMs.
C23_CreatedOnlyOnceVMStored ==
    /\ \A r \in Calls :
           StatusOf(simDep[r]) = "created" =>
               /\ simVM[r].ID \in DOMAIN vms
               /\ vms[simVM[r].ID].val = simVM[r]
    /\ Cardinality({d \in DOMAIN deployments : deployments[d].Status = "created"})
           <= Cardinality(DOMAIN vms)

C23_Witness ==
    \E r \in Calls :
        /\ StatusOf(simDep[r]) = "created"
        /\ simVM[r].ID \in DOMAIN vms

\* C24: UpdateDeploymentStatus never exits: it is always before or in its
\* range statement, it leaves its wait for an update only by receiving one,
\* from an update it goes back to waiting, and it is waiting again and again
\* for as long as the process runs.  Nothing closes the channel.
C24_LoopNeverTerminates ==
    /\ [](loopPc \in {"start", "recv", "load", "store"})
    /\ [][ /\ (loopPc = "recv" /\ loopPc' # "recv") =>
                  /\ loopPc' = "load"
                  /\ Len(received') = Len(received) + 1
           /\ (loopPc = "load" /\ loopPc' # "load") => loopPc' \in {"store", "recv"}
           /\ (loopPc = "store" /\ loopPc' # "store") => loopPc' = "recv" ]_vars
    /\ []<>(loopPc = "recv")

C24_Witness ==
    /\ loopPc = "recv"
    /\ Len(received) > 0
    /\ \A r \in Calls : callPc[r] = "returned" /\ simPc[r] = "done"

\* The header carries, behind "Bearer ", a token GenerateToken issued that
\* has not expired and that RejectToken has not accepted.
CarriesValidToken(h) ==
    /\ h.pre = Bearer
    /\ h.tail \in issued
    /\ now < h.tail.exp
    /\ h.tail \notin rejectedOK

\* The header is not empty and has less than the 7 characters of the prefix.
ShorterThanPrefix(h) ==
    /\ h # NoHeader
    /\ h.tail = NoTail
    /\ Len(h.pre) < PrefixLen

C25_HandlersRunOnlyBehindValidation ==
    [][ (resp = NoResp /\ resp'.route \in AuthorizedRoutes) =>
            /\ resp'.next <=> CarriesValidToken(resp'.header)
            /\ ( /\ ~CarriesValidToken(resp'.header)
                 /\ ~ShorterThanPrefix(resp'.header) ) =>
                   /\ resp'.status = 401
                   /\ ~resp'.panic
            /\ ~resp'.next =>
                   UNCHANGED <<users, usersCreated, rejectedTokens, rejectedOK,
                               issued, uuids, vmVars>> ]_vars

C25_Witness ==
    /\ resp.route = "createVM"
    /\ ~resp.next
    /\ resp.status = 401
    /\ resp.header.tail \in rejectedOK
    /\ now < resp.header.tail.exp
    /\ tasks = <<>>

\* C26: a non-empty Authorization header shorter than the prefix is answered
\* with 401, without a panic in the slice expression.
C26_ShortHeaderIsUnauthorized ==
    (resp.route \in AuthorizedRoutes /\ ShorterThanPrefix(resp.header)) =>
        /\ resp.status = 401
        /\ ~resp.panic

\* C27: login issues a token only for a body whose name and password both
\* equal those of a stored user, with that user's ID and name in the claims;
\* for any other body it answers 400 "invalid credentials" and issues nothing.
\* No other request issues a token.
C27_LoginValidatesCredentialsFirst ==
    [][ /\ issued' # issued =>
               /\ resp'.route = "login"
               /\ resp'.status = 200
               /\ \E i \in 1..Len(users) :
                      /\ users[i].Name = resp'.body.Name
                      /\ users[i].Password = resp'.body.Password
                      /\ \E t \in issued' \ issued :
                             /\ issued' = issued \cup {t}
                             /\ t.user_id = users[i].ID
                             /\ t.name = users[i].Name
        /\ ( /\ resp = NoResp
             /\ resp'.route = "login"
             /\ ~\E i \in 1..Len(users) :
                     /\ users[i].Name = resp'.body.Name
                     /\ users[i].Password = resp'.body.Password ) =>
               /\ resp'.status = 400
               /\ resp'.err = "invalid credentials"
               /\ issued' = issued ]_vars

C27_Witness ==
    /\ resp.route = "login"
    /\ resp.status = 400
    /\ resp.body = [Name |-> "John", Password |-> "VMware1!"]
    /\ issued # {}
    /\ \A i \in 1..Len(users) : users[i].ID # "embedded1"

====
